---- MODULE Spec2Model ----
(***************************************************************************)
(* Model of qlurkin/grades, src/document.py: the Document class (a pandas  *)
(* DataFrame of source columns plus an insertion-ordered map of formulas), *)
(* its formula evaluation with bounded retry (Document.compute), its       *)
(* mutations, reads and JSON persistence.                                  *)
(*                                                                         *)
(* pandas is modelled as version 2.x behaves: a DataFrame is a record      *)
(*   [columns, index, dtype, data]                                         *)
(* with columns and index kept in insertion order, dtype per column        *)
(* ("float64", "object", "int64") and data[column][row] a cell value.      *)
(* None and NaN are one value, Null.                                       *)
(***************************************************************************)
EXTENDS Integers, Sequences, FiniteSets, TLC

VARIABLES doc, files, ret, cs, nops

vars == <<doc, files, ret, cs, nops>>

(***************************************************************************)
(* Bounds of the model.                                                    *)
(***************************************************************************)
\* state-changing calls (mutations, save, load) in one behaviour of Spec
MaxOps == 2
\* computed-column entries in the input of from_dict in SpecCompute
MaxComputed == 3

Rows == {"x", "y"}
Names == {"a", "b"}
\* a string for which str.isidentifier() is False
BadName == "1x"

(***************************************************************************)
(* Cell values: a Python float/int, a Python str, or None/NaN.             *)
(***************************************************************************)
Null == [k |-> "null", v |-> 0]
Num(n) == [k |-> "num", v |-> n]
Str(s) == [k |-> "str", v |-> s]

\* isinstance(value, (float, int))
IsNumber(v) == v.k = "num"
\* isinstance(value, str)
IsString(v) == v.k = "str"
\* isinstance(value, NoneType)
IsNone(v) == v.k = "null"

Range(s) == {s[i] : i \in 1..Len(s)}

\* str.isidentifier()
IsIdentifier(name) == name # BadName

(***************************************************************************)
(* Python dicts keep insertion order: a dict is a sequence of <<key,       *)
(* value>> pairs with distinct keys.                                       *)
(***************************************************************************)
DictKeys(d) == [i \in 1..Len(d) |-> d[i][1]]
DictGet(d, key) == d[CHOOSE i \in 1..Len(d) : d[i][1] = key][2]
DictValues(d) == {d[i][2] : i \in 1..Len(d)}
DictHas(d, key) == \E i \in 1..Len(d) : d[i][1] = key
\* d[key] = value: an existing key keeps its place
DictSet(d, key, value) ==
    IF DictHas(d, key)
    THEN [i \in 1..Len(d) |-> IF d[i][1] = key THEN <<key, value>> ELSE d[i]]
    ELSE Append(d, <<key, value>>)

(***************************************************************************)
(* pandas.DataFrame                                                        *)
(***************************************************************************)
EmptyFrame == [columns |-> <<>>, index |-> <<>>, dtype |-> <<>>, data |-> <<>>]

HasColumn(df, name) == name \in Range(df.columns)
HasRow(df, row) == row \in Range(df.index)

\* df[name] = Series(index, dtype, val): the Series is aligned on the frame's
\* index (its other keys are dropped), unless the frame has no row yet and the
\* Series has some: then the frame takes the Series' index. An existing column
\* of that name is replaced in place.
FrameSetSeries(df, name, index, dtype, val) ==
    LET idx == IF Len(df.index) = 0 /\ Len(index) > 0 THEN index ELSE df.index
        cols == IF HasColumn(df, name) THEN df.columns ELSE Append(df.columns, name)
        new == [r \in Range(idx) |-> IF r \in Range(index) THEN val[r] ELSE Null]
        old(c) == [r \in Range(idx) |-> IF HasRow(df, r) THEN df.data[c][r] ELSE Null]
    IN [columns |-> cols,
        index |-> idx,
        dtype |-> [c \in Range(cols) |-> IF c = name THEN dtype ELSE df.dtype[c]],
        data |-> [c \in Range(cols) |-> IF c = name THEN new ELSE old(c)]]

\* df[name] = scalar: broadcast over the rows
FrameSetScalar(df, name, dtype, value) ==
    FrameSetSeries(df, name, df.index, dtype, [r \in Range(df.index) |-> value])

\* the frame with a row of nulls appended (reindex on index + [row]); dtypes kept
FrameAddRow(df, row) ==
    [df EXCEPT !.index = Append(df.index, row),
               !.data = [c \in Range(df.columns) |->
                            [r \in Range(df.index) \cup {row} |->
                                IF r = row THEN Null ELSE df.data[c][r]]]]

\* df.loc[row, name] = value on an existing cell; a str written into a float64
\* column (the NaN column of an enlargement) upcasts the column to object
FrameSetCell(df, row, name, value) ==
    [df EXCEPT !.data[name][row] = value,
               !.dtype[name] = IF IsString(value) THEN "object" ELSE @]

\* df.loc[(row, name)] = value, with enlargement: a missing row is appended
\* (null in every column), then a missing column is added as NaN (float64),
\* then the cell is set
FrameLocSet(df, row, name, value) ==
    LET df1 == IF HasRow(df, row) THEN df ELSE FrameAddRow(df, row)
        df2 == IF HasColumn(df1, name) THEN df1
               ELSE FrameSetScalar(df1, name, "float64", Null)
    IN FrameSetCell(df2, row, name, value)

(***************************************************************************)
(* Formulas.  A formula text is kept as the expression it denotes:         *)
(*   const        "0"           (the text ui.py gives a new computed       *)
(*                               column)                                   *)
(*   inc  <<x>>   "x + 1"                                                  *)
(*   dbl  <<x>>   "x * 2"                                                  *)
(*   sum  <<x,y>> "x + y"                                                  *)
(* refs lists the identifiers in the order Python evaluates them.          *)
(***************************************************************************)
Const == [op |-> "const", refs |-> <<>>]
Inc(x) == [op |-> "inc", refs |-> <<x>>]
Dbl(x) == [op |-> "dbl", refs |-> <<x>>]
Sum(x, y) == [op |-> "sum", refs |-> <<x, y>>]
NoFormula == [op |-> "", refs |-> <<>>]

\* what a row evaluates to where Python raises TypeError
TypeErr == [k |-> "err", v |-> 0]

\* the value of one row: Python's +, * on floats and strs, pandas' masked
\* arithmetic on nulls; TypeErr where Python raises TypeError
RowValue(f, args) ==
    CASE f.op = "const" -> Num(0)
      [] f.op = "inc" ->
            IF IsNone(args[1]) THEN Null
            ELSE IF IsNumber(args[1]) THEN Num(args[1].v + 1)
            ELSE TypeErr
      [] f.op = "dbl" ->
            IF IsNone(args[1]) THEN Null
            ELSE IF IsNumber(args[1]) THEN Num(args[1].v * 2)
            ELSE Str(args[1].v \o args[1].v)
      [] OTHER ->
            IF IsNone(args[1]) \/ IsNone(args[2]) THEN Null
            ELSE IF IsNumber(args[1]) /\ IsNumber(args[2]) THEN Num(args[1].v + args[2].v)
            ELSE IF IsString(args[1]) /\ IsString(args[2]) THEN Str(args[1].v \o args[2].v)
            ELSE TypeErr

\* the dtype of the result of an arithmetic expression over columns
ResultDtype(f, df) ==
    IF f.op = "const" \/ \A i \in 1..Len(f.refs) : df.dtype[f.refs[i]] = "int64"
    THEN "int64"
    ELSE IF \E i \in 1..Len(f.refs) : df.dtype[f.refs[i]] = "object"
    THEN "object"
    ELSE "float64"

\* the value of formula f over the columns of cols, a function from each
\* referenced identifier to a column (row -> value), on the rows of index
ApplyFormula(f, cols, index) ==
    [r \in Range(index) |-> RowValue(f, [i \in 1..Len(f.refs) |-> cols[f.refs[i]][r]])]

\* the first identifier of f, in evaluation order, that is no key of the
\* namespace ns (the columns of the working table); "" when all are
FirstMissing(f, df) ==
    IF \A i \in 1..Len(f.refs) : HasColumn(df, f.refs[i]) THEN ""
    ELSE f.refs[CHOOSE i \in 1..Len(f.refs) :
                    /\ ~HasColumn(df, f.refs[i])
                    /\ \A j \in 1..(i - 1) : HasColumn(df, f.refs[j])]

\* Document.__compute_column: df[name] = eval(self.__computed[name], ns).
\* err is "" (df holds the new column), "NameError" (name is the identifier)
\* or "TypeError".
ComputeColumn(df, computed, name) ==
    LET f == DictGet(computed, name)
        missing == FirstMissing(f, df)
        val == ApplyFormula(f, df.data, df.index)
    IN IF missing # "" THEN [df |-> df, err |-> "NameError", name |-> missing]
       ELSE IF \E r \in Range(df.index) : val[r] = TypeErr
       THEN [df |-> df, err |-> "TypeError", name |-> ""]
       ELSE IF f.op = "const"
       THEN [df |-> FrameSetScalar(df, name, "int64", Num(0)), err |-> "", name |-> ""]
       ELSE [df |-> FrameSetSeries(df, name, df.index, ResultDtype(f, df), val),
             err |-> "", name |-> ""]

(***************************************************************************)
(* Document.compute.  A compute state is the locals of the call:           *)
(*   df, to_compute, max_iter, count,                                      *)
(* with status "loop" while the while-loop runs, then "returned" or the    *)
(* exception that left the call, error_name the NameError's name, and last *)
(* the name popped by the latest iteration.                                *)
(***************************************************************************)
\* df = self.__source without the copy: the table written is the source table
SourceAliased(source, df) == df

\* df = self.__source.copy(): what the source table is once the call has
\* written to df; the copy shares nothing with it
SourceUnderCopy(source, df) == source

ComputeStart(d) ==
    [df |-> d.source,
     to_compute |-> DictKeys(d.computed),
     max_iter |-> Len(d.computed) * Len(d.computed),
     count |-> 0,
     status |-> "loop",
     error_name |-> "",
     last |-> ""]

\* ComputeStep without the test "e.name not in self.__computed": every
\* NameError sends the formula back to the queue
ComputeStepRequeueAll(d, c) ==
    IF Len(c.to_compute) = 0 THEN [c EXCEPT !.status = "returned"]
    ELSE IF c.count > c.max_iter THEN [c EXCEPT !.status = "CyclicDependencyError"]
    ELSE LET name == Head(c.to_compute)
             rest == Tail(c.to_compute)
             r == ComputeColumn(c.df, d.computed, name)
         IN IF r.err = ""
            THEN [c EXCEPT !.df = r.df, !.to_compute = rest,
                           !.count = @ + 1, !.last = name]
            ELSE IF r.err = "NameError"
            THEN [c EXCEPT !.to_compute = Append(rest, name),
                           !.count = @ + 1, !.last = name]
            ELSE [c EXCEPT !.to_compute = rest, !.status = r.err,
                           !.error_name = r.name, !.last = name]

\* ComputeStep with `count += 1` inside the try block: a formula sent back
\* to the queue is not counted
ComputeStepNoCount(d, c) ==
    IF Len(c.to_compute) = 0 THEN [c EXCEPT !.status = "returned"]
    ELSE IF c.count > c.max_iter THEN [c EXCEPT !.status = "CyclicDependencyError"]
    ELSE LET name == Head(c.to_compute)
             rest == Tail(c.to_compute)
             r == ComputeColumn(c.df, d.computed, name)
         IN IF r.err = ""
            THEN [c EXCEPT !.df = r.df, !.to_compute = rest,
                           !.count = @ + 1, !.last = name]
            ELSE IF r.err = "NameError" /\ DictHas(d.computed, r.name)
            THEN [c EXCEPT !.to_compute = Append(rest, name), !.last = name]
            ELSE [c EXCEPT !.to_compute = rest, !.status = r.err,
                           !.error_name = r.name, !.last = name]

\* ComputeStep with `to_compute.insert(0, name)` for `to_compute.append(name)`
ComputeStepRequeueFront(d, c) ==
    IF Len(c.to_compute) = 0 THEN [c EXCEPT !.status = "returned"]
    ELSE IF c.count > c.max_iter THEN [c EXCEPT !.status = "CyclicDependencyError"]
    ELSE LET name == Head(c.to_compute)
             rest == Tail(c.to_compute)
             r == ComputeColumn(c.df, d.computed, name)
         IN IF r.err = ""
            THEN [c EXCEPT !.df = r.df, !.to_compute = rest,
                           !.count = @ + 1, !.last = name]
            ELSE IF r.err = "NameError" /\ DictHas(d.computed, r.name)
            THEN [c EXCEPT !.to_compute = <<name>> \o rest,
                           !.count = @ + 1, !.last = name]
            ELSE [c EXCEPT !.to_compute = rest, !.status = r.err,
                           !.error_name = r.name, !.last = name]

\* one evaluation of the loop condition and, when it holds, of the loop body
ComputeStep(d, c) ==
    IF Len(c.to_compute) = 0 THEN [c EXCEPT !.status = "returned"]
    ELSE IF c.count > c.max_iter THEN [c EXCEPT !.status = "CyclicDependencyError"]
    ELSE LET name == Head(c.to_compute)
             rest == Tail(c.to_compute)
             r == ComputeColumn(c.df, d.computed, name)
         IN IF r.err = ""
            THEN [c EXCEPT !.df = r.df, !.to_compute = rest,
                           !.count = @ + 1, !.last = name]
            ELSE IF r.err = "NameError" /\ DictHas(d.computed, r.name)
            THEN [c EXCEPT !.to_compute = Append(rest, name),
                           !.count = @ + 1, !.last = name]
            ELSE [c EXCEPT !.to_compute = rest, !.status = r.err,
                           !.error_name = r.name, !.last = name]

RECURSIVE ComputeRun(_, _)
ComputeRun(d, c) == IF c.status # "loop" THEN c ELSE ComputeRun(d, ComputeStep(d, c))

\* the whole call
\* Document.compute keeping the table of the previous call
ComputeCached(d) ==
    IF cs.status = "returned" THEN cs ELSE ComputeRun(d, ComputeStart(d))

Compute(d) == ComputeRun(d, ComputeStart(d))

NoCompute ==
    [df |-> EmptyFrame, to_compute |-> <<>>, max_iter |-> 0, count |-> 0,
     status |-> "idle", error_name |-> "", last |-> ""]

(***************************************************************************)
(* Document.  A document is the record of the object's fields:             *)
(*   source (the DataFrame __source), computed (the dict __computed, name  *)
(*   -> formula, in insertion order), title, course, code, date, filename. *)
(* Every method is an operator from the document (and its arguments) to    *)
(*   [doc, err, val]: the document after the call, the exception raised    *)
(*   ("" when none) and the value returned.                                *)
(***************************************************************************)
None == "None"
NoValue == <<>>

Ok(d, val) == [doc |-> d, err |-> "", val |-> val]
Raise(d, err) == [doc |-> d, err |-> err, val |-> NoValue]

\* Document.__init__
NewDocument(title, course, code, date, filename) ==
    [source |-> EmptyFrame, computed |-> <<>>, title |-> title, course |-> course,
     code |-> code, date |-> date, filename |-> filename]

\* Document.add_source_column
AddSourceColumn(d, name, column) ==
    LET val == [r \in Range(DictKeys(column)) |-> DictGet(column, r)]
    IN IF ~IsIdentifier(name) THEN Raise(d, "ValueError")
       ELSE IF \A v \in DictValues(column) : IsNumber(v) \/ IsNone(v)
       THEN Ok([d EXCEPT !.source =
                    FrameSetSeries(@, name, DictKeys(column), "float64", val)], NoValue)
       ELSE IF \A v \in DictValues(column) : IsString(v) \/ IsNone(v)
       THEN Ok([d EXCEPT !.source =
                    FrameSetSeries(@, name, DictKeys(column), "object", val)], NoValue)
       ELSE Raise(d, "ValueError")

\* Document.add_computed_column
AddComputedColumn(d, name, formula) ==
    IF ~IsIdentifier(name) THEN Raise(d, "ValueError")
    ELSE Ok([d EXCEPT !.computed = DictSet(@, name, formula)], NoValue)

\* Document.indexes
Indexes(d) == d.source.index

\* Document.add_row: self.__source.loc[index] = {column: None, ...}.  pandas
\* refuses a frame with no column; on a frame with no row it builds the row
\* ignoring the dtypes, so every column becomes object; otherwise it appends
\* the row and the all-null row leaves the dtypes as they are.
AddRow(d, index) ==
    LET df == d.source
    IN IF index \in Range(Indexes(d)) THEN Raise(d, "IndexError")
       ELSE IF Len(df.columns) = 0 THEN Raise(d, "ValueError")
       ELSE IF Len(df.index) = 0
       THEN Ok([d EXCEPT !.source =
                    [FrameAddRow(df, index) EXCEPT
                        !.dtype = [c \in Range(df.columns) |-> "object"]]], NoValue)
       ELSE Ok([d EXCEPT !.source = FrameAddRow(df, index)], NoValue)

\* Document.set_formula without the test `name not in self.__computed`
SetFormulaUnchecked(d, name, formula) ==
    Ok([d EXCEPT !.computed = DictSet(@, name, formula)], NoValue)

\* Document.set_formula
SetFormula(d, name, formula) ==
    IF ~DictHas(d.computed, name) THEN Raise(d, "IndexError")
    ELSE Ok([d EXCEPT !.computed = DictSet(@, name, formula)], NoValue)

\* Document.formula
FormulaOf(d, name) ==
    IF ~DictHas(d.computed, name) THEN Raise(d, "IndexError")
    ELSE Ok(d, DictGet(d.computed, name))

\* Document.column_names
ColumnNames(d) == d.source.columns \o DictKeys(d.computed)

\* Document.is_computed
IsComputed(d, column) == DictHas(d.computed, column)

\* Document.column: self.compute()[column_name].to_dict()
Column(d, column_name) ==
    LET c == Compute(d)
    IN IF c.status # "returned" THEN Raise(d, c.status)
       ELSE IF ~HasColumn(c.df, column_name) THEN Raise(d, "KeyError")
       ELSE Ok(d, c.df.data[column_name])

\* Document.index: self.compute().loc[index].to_dict()
Index(d, index) ==
    LET c == Compute(d)
    IN IF c.status # "returned" THEN Raise(d, c.status)
       ELSE IF ~HasRow(c.df, index) THEN Raise(d, "KeyError")
       ELSE Ok(d, [n \in Range(c.df.columns) |-> c.df.data[n][index]])

\* Document.column_type
ColumnType(d, name) ==
    LET c == Compute(d)
    IN IF c.status # "returned" THEN Raise(d, c.status)
       ELSE IF ~HasColumn(c.df, name) THEN Raise(d, "KeyError")
       ELSE Ok(d, IF c.df.dtype[name] = "float64" THEN "number" ELSE "string")

\* Document.__getitem__: self.compute().loc[coords]
GetItem(d, row, column) ==
    LET c == Compute(d)
    IN IF c.status # "returned" THEN Raise(d, c.status)
       ELSE IF ~HasRow(c.df, row) \/ ~HasColumn(c.df, column) THEN Raise(d, "KeyError")
       ELSE Ok(d, c.df.data[column][row])

\* Document.__setitem__ without the two dtype tests of its first branch
SetItemUnchecked(d, row, column, value) ==
    IF HasColumn(d.source, column)
    THEN Ok([d EXCEPT !.source = FrameLocSet(@, row, column, value)], NoValue)
    ELSE IF ~IsIdentifier(column) THEN Raise(d, "ValueError")
    ELSE IF DictHas(d.computed, column) THEN Raise(d, "IndexError")
    ELSE IF ~(IsNumber(value) \/ IsString(value)) THEN Raise(d, "TypeError")
    ELSE Ok([d EXCEPT !.source = FrameLocSet(@, row, column, value)], NoValue)

\* Document.__setitem__
SetItem(d, row, column, value) ==
    IF HasColumn(d.source, column)
    THEN IF d.source.dtype[column] = "float64" /\ ~IsNumber(value)
         THEN Raise(d, "TypeError")
         ELSE IF d.source.dtype[column] = "object" /\ ~IsString(value)
         THEN Raise(d, "TypeError")
         ELSE Ok([d EXCEPT !.source = FrameLocSet(@, row, column, value)], NoValue)
    ELSE IF ~IsIdentifier(column) THEN Raise(d, "ValueError")
    ELSE IF DictHas(d.computed, column) THEN Raise(d, "IndexError")
    ELSE IF ~(IsNumber(value) \/ IsString(value)) THEN Raise(d, "TypeError")
    ELSE Ok([d EXCEPT !.source = FrameLocSet(@, row, column, value)], NoValue)

(***************************************************************************)
(* Persistence.  A date is [day, us] (us the microseconds); its ISO text   *)
(* is [date, frac], frac holding the microseconds only when they are not   *)
(* zero, as datetime.isoformat does.  A JSON document is the record        *)
(*   [title, course, code, datetime, columns]                              *)
(* and a column entry [type, dtype, name, rows, formula] (rows a dict in   *)
(* row order; the keys an entry's type does not have are left empty).      *)
(* The file system maps a path to <<>> (no file) or <<data>>.              *)
(***************************************************************************)
IsoFormat(date) ==
    [date |-> date.day, frac |-> IF date.us = 0 THEN <<>> ELSE <<date.us>>]
FromIsoFormat(text) ==
    [day |-> text.date, us |-> IF Len(text.frac) = 0 THEN 0 ELSE text.frac[1]]

\* clean_nan: a float NaN becomes None
CleanNan(v) == IF IsNone(v) THEN Null ELSE v

SourceEntry(name, dtype, rows) ==
    [type |-> "source", dtype |-> dtype, name |-> name, rows |-> rows,
     formula |-> NoFormula]
ComputedEntry(name, formula) ==
    [type |-> "computed", dtype |-> "", name |-> name, rows |-> <<>>,
     formula |-> formula]

\* the loop of Document.save over self.__source.columns: each entry takes
\* its dtype from column_type(name) and its rows from column(name), both of
\* which evaluate the document
SaveSourceEntry(d, name) ==
    LET t == ColumnType(d, name)
        c == Column(d, name)
        index == Compute(d).df.index
    IN SourceEntry(name, t.val,
                   [i \in 1..Len(index) |-> <<index[i], CleanNan(c.val[index[i]])>>])

\* the exception of the first evaluation of save that fails, "" when none does
SaveError(d) ==
    IF Len(d.source.columns) = 0 THEN "" ELSE ColumnType(d, d.source.columns[1]).err

\* the dict res of Document.save
SaveData(d) ==
    [title |-> d.title, course |-> d.course, code |-> d.code,
     datetime |-> IsoFormat(d.date),
     columns |->
        [i \in 1..Len(d.source.columns) |-> SaveSourceEntry(d, d.source.columns[i])]
        \o [i \in 1..Len(d.computed) |->
                ComputedEntry(d.computed[i][1], d.computed[i][2])]]

\* Document.save opening the target file for writing before the evaluation:
\* a failed evaluation leaves the file without content
SaveOpenFirst(d, fs, path) ==
    LET target == IF path = None THEN d.filename ELSE path
    IN IF target = None THEN [doc |-> d, err |-> "ValueError", val |-> NoValue, files |-> fs]
       ELSE IF SaveError(d) # ""
       THEN [doc |-> d, err |-> SaveError(d), val |-> NoValue,
             files |-> [fs EXCEPT ![target] = <<>>]]
       ELSE [doc |-> d, err |-> "", val |-> NoValue,
             files |-> [fs EXCEPT ![target] = <<SaveData(d)>>]]

\* Document.save without the use of self.filename
SaveNoFilename(d, fs, path) ==
    IF path = None THEN [doc |-> d, err |-> "ValueError", val |-> NoValue, files |-> fs]
    ELSE IF SaveError(d) # ""
    THEN [doc |-> d, err |-> SaveError(d), val |-> NoValue, files |-> fs]
    ELSE [doc |-> d, err |-> "", val |-> NoValue,
          files |-> [fs EXCEPT ![path] = <<SaveData(d)>>]]

\* Document.save on the file system fs: [doc, err, val, files]
Save(d, fs, path) ==
    LET target == IF path = None THEN d.filename ELSE path
    IN IF target = None THEN [doc |-> d, err |-> "ValueError", val |-> NoValue, files |-> fs]
       ELSE IF SaveError(d) # ""
       THEN [doc |-> d, err |-> SaveError(d), val |-> NoValue, files |-> fs]
       ELSE [doc |-> d, err |-> "", val |-> NoValue,
             files |-> [fs EXCEPT ![target] = <<SaveData(d)>>]]

\* validate(data): the schema of schema.json, a file the sources do not hold;
\* every row of a number column is a number or null, every row of a string
\* column a string or null
Validate(data) ==
    \A i \in 1..Len(data.columns) :
        LET e == data.columns[i]
        IN e.type = "source" =>
             /\ e.dtype \in {"number", "string"}
             /\ \A v \in DictValues(e.rows) :
                   IsNone(v) \/ (IF e.dtype = "number" THEN IsNumber(v) ELSE IsString(v))

\* the loop of Document.from_dict over data["columns"], from entry i on; an
\* exception of add_source_column or add_computed_column leaves the loop
RECURSIVE FromColumns(_, _, _)
FromColumns(d, columns, i) ==
    IF i > Len(columns) THEN Ok(d, NoValue)
    ELSE LET e == columns[i]
             r == IF e.type = "source" THEN AddSourceColumn(d, e.name, e.rows)
                  ELSE AddComputedColumn(d, e.name, e.formula)
         IN IF r.err # "" THEN r ELSE FromColumns(r.doc, columns, i + 1)

\* Document.from_dict
FromDict(data) ==
    LET d == NewDocument(data.title, data.course, data.code,
                         FromIsoFormat(data.datetime), None)
    IN IF ~Validate(data) THEN Raise(d, "ValidationError")
       ELSE FromColumns(d, data.columns, 1)

\* Document.from_file
FromFile(fs, path) ==
    IF Len(fs[path]) = 0
    THEN Raise(NewDocument("", "", "", [day |-> 0, us |-> 0], None), "FileNotFoundError")
    ELSE LET r == FromDict(fs[path][1])
         IN IF r.err # "" THEN r ELSE Ok([r.doc EXCEPT !.filename = path], NoValue)

(***************************************************************************)
(* The program: one document, driven through its public methods as ui.py   *)
(* and main() drive it.  ret is the latest call: its name, arguments,      *)
(* exception ("" when none) and returned value; cs the compute state the   *)
(* latest evaluation of a read ended in (the table it returned); nops      *)
(* counts the calls that changed the document or the files.                *)
(***************************************************************************)
Paths == {"f"}
\* datetime.now()
Now == [day |-> 1, us |-> 5]
CellInputs == {Num(1), Str("t"), Null}
ColumnInputs ==
    { <<>>,
      << <<"y", Num(2)>>, <<"x", Null>> >>,
      << <<"x", Str("t")>> >>,
      << <<"x", Num(1)>>, <<"y", Str("t")>> >> }
FormulaInputs == {Const, Inc("a"), Sum("a", "b")}

\* the data of main(): a source column and a computed column over it
MainData ==
    [title |-> "Examen", course |-> "Programmation", code |-> "in2l",
     datetime |-> [date |-> 1, frac |-> <<>>],
     columns |-> << SourceEntry("a", "number", << <<"x", Num(1)>> >>),
                    ComputedEntry("b", Inc("a")) >>]

Call(op, args, r) == [op |-> op, args |-> args, err |-> r.err, val |-> r.val]

\* Document.new
New == NewDocument("Untitled", "", "", Now, None)

\* the file ui.py starts from, holding the data of main()
MainFiles == [p \in Paths |-> <<MainData>>]

\* the program starts from an empty document, no file written yet, or, as
\* ui.py does, from the document loaded from its file
Init ==
    /\ \/ /\ doc = New
          /\ files = [p \in Paths |-> <<>>]
          /\ ret = [op |-> "new", args |-> <<>>, err |-> "", val |-> NoValue]
       \/ \E path \in Paths :
             /\ doc = FromFile(MainFiles, path).doc
             /\ files = MainFiles
             /\ ret = Call("from_file", <<path>>, FromFile(MainFiles, path))
    /\ cs = NoCompute
    /\ nops = 0

\* a call that may change the document
Mutation(op, args, r) ==
    /\ nops < MaxOps
    /\ doc' = r.doc
    /\ ret' = Call(op, args, r)
    /\ nops' = IF r.err = "" THEN nops + 1 ELSE nops
    /\ UNCHANGED <<files, cs>>

\* a call that evaluates the document and changes nothing
Read(op, args, r) ==
    /\ ret' = Call(op, args, r)
    /\ cs' = Compute(doc)
    /\ doc' = [doc EXCEPT !.source = SourceUnderCopy(@, cs'.df)]
    /\ UNCHANGED <<files, nops>>

DoSetItem ==
    \E <<row, column, value>> \in
            (Rows \X Names \X CellInputs) \cup {<<"x", BadName, Num(1)>>} :
        Mutation("setitem", <<row, column, value>>, SetItem(doc, row, column, value))

DoAddSourceColumn ==
    \E <<name, column>> \in (Names \X ColumnInputs) \cup {<<BadName, <<>>>>} :
        Mutation("add_source_column", <<name, column>>, AddSourceColumn(doc, name, column))

DoAddComputedColumn ==
    \E <<name, formula>> \in (Names \X FormulaInputs) \cup {<<BadName, Const>>} :
        Mutation("add_computed_column", <<name, formula>>,
                 AddComputedColumn(doc, name, formula))

DoAddRow ==
    \E index \in Rows : Mutation("add_row", <<index>>, AddRow(doc, index))

DoSetFormula ==
    \E name \in Names, formula \in FormulaInputs :
        Mutation("set_formula", <<name, formula>>, SetFormula(doc, name, formula))

DoFormula ==
    \E name \in Names :
        /\ ret' = Call("formula", <<name>>, FormulaOf(doc, name))
        /\ UNCHANGED <<doc, files, cs, nops>>

DoColumn ==
    \E name \in Names : Read("column", <<name>>, Column(doc, name))

DoIndex ==
    \E index \in Rows : Read("index", <<index>>, Index(doc, index))

DoGetItem ==
    \E row \in Rows, column \in Names :
        Read("getitem", <<row, column>>, GetItem(doc, row, column))

DoColumnType ==
    \E name \in Names : Read("column_type", <<name>>, ColumnType(doc, name))

DoSave ==
    \E path \in Paths \cup {None} :
        LET r == Save(doc, files, path)
        IN /\ nops < MaxOps
           /\ files' = r.files
           /\ ret' = Call("save", <<path>>, r)
           /\ nops' = IF r.err = "" THEN nops + 1 ELSE nops
           /\ UNCHANGED <<doc, cs>>

\* doc = Document.from_file(path), the start of ui.py and of main()
DoFromFile ==
    \E path \in Paths :
        LET r == FromFile(files, path)
        IN /\ nops < MaxOps
           /\ doc' = IF r.err = "" THEN r.doc ELSE doc
           /\ ret' = Call("from_file", <<path>>, r)
           /\ nops' = IF r.err = "" THEN nops + 1 ELSE nops
           /\ UNCHANGED <<files, cs>>

\* the attribute dirty of a Document, which ui.py reads: __init__ sets no
\* such attribute and no method does
DirtyOf(d) ==
    IF "dirty" \in DOMAIN d THEN Ok(d, d.dirty) ELSE Raise(d, "AttributeError")

\* UI.render_table: the title (with the dirty mark), then the columns and
\* one row per index
RenderTable(d) ==
    IF DirtyOf(d).err # "" THEN Raise(d, DirtyOf(d).err)
    ELSE IF \E i \in 1..Len(Indexes(d)) : Index(d, Indexes(d)[i]).err # ""
    THEN Raise(d, Compute(d).status)
    ELSE Ok(d, <<ColumnNames(d),
                 [i \in 1..Len(Indexes(d)) |-> Index(d, Indexes(d)[i]).val]>>)

DoRenderTable ==
    /\ ret' = Call("render_table", <<>>, RenderTable(doc))
    /\ cs' = IF DirtyOf(doc).err # "" \/ Len(Indexes(doc)) = 0 THEN cs ELSE Compute(doc)
    /\ UNCHANGED <<doc, files, nops>>

Next ==
    \/ DoRenderTable
    \/ DoSetItem
    \/ DoAddSourceColumn
    \/ DoAddComputedColumn
    \/ DoAddRow
    \/ DoSetFormula
    \/ DoFormula
    \/ DoColumn
    \/ DoIndex
    \/ DoGetItem
    \/ DoColumnType
    \/ DoSave
    \/ DoFromFile

Spec == Init /\ [][Next]_vars

(***************************************************************************)
(* One call of Document.compute, iteration by iteration, on the document   *)
(* Document.from_dict builds from its input: the source columns of one of  *)
(* SourceInputs followed by up to MaxComputed computed columns of distinct *)
(* names, in any order, each with any formula of ComputeFormulas.          *)
(***************************************************************************)
ComputedNames == {"a", "b", "c", "d"}
ComputeFormulas ==
    {Inc("s"), Inc("a"), Inc("b"), Inc("c"), Sum("a", "z"), Inc("t")}
SourceInputs ==
    { <<>>,
      << SourceEntry("s", "number", << <<"x", Num(1)>>, <<"y", Null>> >>) >>,
      << SourceEntry("s", "number", << <<"x", Num(1)>>, <<"y", Null>> >>),
         SourceEntry("t", "string", << <<"x", Str("t")>>, <<"y", Null>> >>) >>,
      << SourceEntry("s", "number", << <<"x", Num(1)>>, <<"y", Null>> >>),
         SourceEntry("a", "number", << <<"x", Num(5)>>, <<"y", Num(7)>> >>) >> }

\* the lists of at most n computed-column entries of distinct names
RECURSIVE ComputedInputs(_)
ComputedInputs(n) ==
    IF n = 0 THEN {<<>>}
    ELSE LET shorter == ComputedInputs(n - 1)
         IN shorter \cup
            { Append(l, ComputedEntry(name, f)) :
                l \in {m \in shorter : Len(m) = n - 1},
                name \in ComputedNames, f \in ComputeFormulas }

DistinctNames(l) == \A i, j \in 1..Len(l) : l[i].name = l[j].name => i = j

\* the data of main(), with other columns
DataInputs ==
    { [title |-> "Examen", course |-> "Programmation", code |-> "in2l",
       datetime |-> [date |-> 1, frac |-> <<>>], columns |-> src \o l] :
        src \in SourceInputs,
        l \in {m \in ComputedInputs(MaxComputed) : DistinctNames(m)} }

InitCompute ==
    /\ \E data \in DataInputs :
          /\ FromDict(data).err = ""
          /\ doc = FromDict(data).doc
    /\ files = [p \in Paths |-> <<>>]
    /\ ret = [op |-> "from_dict", args |-> <<>>, err |-> "", val |-> NoValue]
    /\ cs = ComputeStart(doc)
    /\ nops = 0

\* what the next iteration does
Looping == cs.status = "loop" /\ Len(cs.to_compute) > 0 /\ cs.count <= cs.max_iter
Attempt == ComputeColumn(cs.df, doc.computed, Head(cs.to_compute))

Iterate ==
    /\ cs' = ComputeStep(doc, cs)
    /\ doc' = [doc EXCEPT !.source = SourceUnderCopy(@, cs'.df)]
    /\ UNCHANGED <<files, ret, nops>>

\* the formula evaluates: its column joins the working table
Evaluate == Looping /\ Attempt.err = "" /\ Iterate

\* NameError on a computed-column name: back to the end of the queue
Requeue ==
    /\ Looping /\ Attempt.err = "NameError" /\ DictHas(doc.computed, Attempt.name)
    /\ Iterate

\* NameError on another name: re-raised
RaiseNameError ==
    /\ Looping /\ Attempt.err = "NameError" /\ ~DictHas(doc.computed, Attempt.name)
    /\ Iterate

\* any other exception of eval leaves compute
RaiseTypeError == Looping /\ Attempt.err = "TypeError" /\ Iterate

RaiseCyclicDependencyError ==
    /\ cs.status = "loop" /\ Len(cs.to_compute) > 0 /\ cs.count > cs.max_iter
    /\ Iterate

Return == cs.status = "loop" /\ Len(cs.to_compute) = 0 /\ Iterate

NextCompute ==
    \/ Evaluate
    \/ Requeue
    \/ RaiseNameError
    \/ RaiseTypeError
    \/ RaiseCyclicDependencyError
    \/ Return

SpecCompute == InitCompute /\ [][NextCompute]_vars

\* the documents over a number column s and a string column t
TypedDataInputs ==
    {data \in DataInputs :
        Len(data.columns) >= 2 /\ data.columns[2] = SourceEntry("t", "string", << <<"x", Str("t")>>, <<"y", Null>> >>)}

InitComputeTyped ==
    /\ \E data \in TypedDataInputs :
          /\ FromDict(data).err = ""
          /\ doc = FromDict(data).doc
    /\ files = [p \in Paths |-> <<>>]
    /\ ret = [op |-> "from_dict", args |-> <<>>, err |-> "", val |-> NoValue]
    /\ cs = ComputeStart(doc)
    /\ nops = 0

\* the call runs on: a Python thread that can take its next step takes it
SpecComputeFair ==
    InitComputeTyped /\ [][NextCompute]_vars /\ WF_vars(NextCompute)

(***************************************************************************)
(* Loading: Document.from_file on a file that holds any schema-valid       *)
(* document of at most MaxColumns columns with distinct names, followed by *)
(* reads and saves of the loaded document.                                 *)
(***************************************************************************)
MaxColumns == 2

LoadRows ==
    { <<>>,
      << <<"x", Null>> >>,
      << <<"x", Num(1)>> >>,
      << <<"y", Num(2)>>, <<"x", Null>> >>,
      << <<"x", Str("t")>> >>,
      << <<"x", Str("t")>>, <<"y", Null>> >> }

\* the formulas of a file: those of the calls, and one over a name that is
\* no column
LoadFormulas == FormulaInputs \cup {Inc("z")}

LoadEntries ==
    {SourceEntry(n, t, rows) : n \in Names, t \in {"number", "string"}, rows \in LoadRows}
        \cup {ComputedEntry(n, f) : n \in Names, f \in LoadFormulas}

LoadData(columns) ==
    [title |-> "Examen", course |-> "Programmation", code |-> "in2l",
     datetime |-> [date |-> 1, frac |-> <<>>], columns |-> columns]

\* the documents validate(data) accepts
LoadInputs ==
    {data \in {LoadData(columns) :
                  columns \in UNION {[1..n -> LoadEntries] : n \in 1..MaxColumns}} :
        /\ Validate(data)
        /\ DistinctNames(data.columns)}

InitLoad ==
    /\ doc = New
    /\ \E data \in LoadInputs : files = [p \in Paths |-> <<data>>]
    /\ ret = [op |-> "new", args |-> <<>>, err |-> "", val |-> NoValue]
    /\ cs = NoCompute
    /\ nops = 0

NextLoad ==
    \/ DoFromFile
    \/ DoColumnType
    \/ DoSave

SpecLoad == InitLoad /\ [][NextLoad]_vars

(***************************************************************************)
(* The dependency graph of a formula map.                                  *)
(***************************************************************************)
ComputedKeys(d) == Range(DictKeys(d.computed))
SourceKeys(d) == Range(d.source.columns)
Refs(d, c) == Range(DictGet(d.computed, c).refs)

\* the computed columns reached from those of S in at most n references
RECURSIVE Reach(_, _, _)
Reach(d, S, n) ==
    IF n = 0 THEN S
    ELSE Reach(d, S \cup UNION {Refs(d, c) \cap ComputedKeys(d) : c \in S}, n - 1)

\* the computed columns the formula of c depends on, directly or not
DependsOn(d, c) == Reach(d, Refs(d, c) \cap ComputedKeys(d), Len(d.computed))

HasCycle(d) == \E c \in ComputedKeys(d) : c \in DependsOn(d, c)

\* neither a source column nor a computed column
Unknown(d, n) == n \notin SourceKeys(d) /\ n \notin ComputedKeys(d)
UnknownRefs(d, c) == {n \in Refs(d, c) : Unknown(d, n)}
HasUnknownRef(d) == \E c \in ComputedKeys(d) : UnknownRefs(d, c) # {}
AllRefsKnown(d) == ~HasUnknownRef(d)

\* the document with its formula map in another insertion order
Orders(n) == {p \in [1..n -> 1..n] : \A i, j \in 1..n : p[i] = p[j] => i = j}
Reordered(d, p) == [d EXCEPT !.computed = [i \in 1..Len(d.computed) |-> d.computed[p[i]]]]

(***************************************************************************)
(* C1.  A formula map with a dependency cycle among its computed columns   *)
(* (a self-reference included), all of whose identifiers are column names, *)
(* never makes compute return a derived table.                             *)
(* Fails: a computed column may take the name of a source column (C7), and *)
(* its references to that name are then served by the source column.       *)
(***************************************************************************)
C1_CycleNeverReturns ==
    (HasCycle(doc) /\ AllRefsKnown(doc)) => cs.status # "returned"

(***************************************************************************)
(* C2 as claimed.  When a formula references an unknown identifier,        *)
(* compute ends with the NameError naming an unknown identifier, and the   *)
(* formula is never sent back to the queue.                                *)
(***************************************************************************)
RequeueStep ==
    /\ Looping
    /\ cs'.status = "loop"
    /\ cs'.to_compute = Append(Tail(cs.to_compute), Head(cs.to_compute))

C2_AlwaysUndefinedReference ==
    [][ /\ (cs'.status # "loop" /\ HasUnknownRef(doc))
            => (cs'.status = "NameError" /\ Unknown(doc, cs'.error_name))
        /\ ~(RequeueStep /\ UnknownRefs(doc, Head(cs.to_compute)) # {}) ]_vars

(***************************************************************************)
(* C2 as amended.  When a formula references an unknown identifier,        *)
(* compute never returns a derived table; and an attempt whose first       *)
(* identifier missing from the working table (in evaluation order) is no   *)
(* computed column raises the NameError naming it, the formula leaving the *)
(* queue.                                                                  *)
(***************************************************************************)
C2_UndefinedReference ==
    [][ /\ cs'.status = "returned" => ~HasUnknownRef(doc)
        /\ LET missing == FirstMissing(DictGet(doc.computed, Head(cs.to_compute)), cs.df)
           IN (Looping /\ missing # "" /\ Unknown(doc, missing))
                => /\ cs'.status = "NameError"
                   /\ cs'.error_name = missing
                   /\ cs'.to_compute = Tail(cs.to_compute) ]_vars

\* the NameError of z, raised by a formula that was sent back to the queue
\* once, on a computed column evaluated since
C2_Witness ==
    /\ cs.status = "NameError"
    /\ cs.error_name = "z"
    /\ Unknown(doc, "z")
    /\ cs.count >= 2
    /\ HasColumn(cs.df, "a")
    /\ "a" \notin SourceKeys(doc)

(***************************************************************************)
(* C3.  For an acyclic formula map whose identifiers are all column names, *)
(* the table compute returns holds, for each computed column, its formula  *)
(* applied to the final values of the columns it references, and is the    *)
(* same table for every insertion order of the formula map.                *)
(* Fails: with a computed column named as a source column (C7), a formula  *)
(* evaluated before it reads the source column, one evaluated after it the *)
(* computed column.                                                        *)
(***************************************************************************)
C3_OrderIndependent ==
    (cs.status = "returned" /\ ~HasCycle(doc) /\ AllRefsKnown(doc))
        => /\ \A c \in ComputedKeys(doc) :
                cs.df.data[c]
                    = ApplyFormula(DictGet(doc.computed, c), cs.df.data, cs.df.index)
           /\ \A p \in Orders(Len(doc.computed)) :
                /\ Compute(Reordered(doc, p)).status = "returned"
                /\ Compute(Reordered(doc, p)).df.data = cs.df.data

(***************************************************************************)
(* What a client observes of a document.                                   *)
(***************************************************************************)
NoDuplicate(l) == \A i, j \in 1..Len(l) : l[i] = l[j] => i = j

\* the same column_names, indexes, cells, formulas and metadata
SameDocument(d, e) ==
    /\ ColumnNames(d) = ColumnNames(e)
    /\ Indexes(d) = Indexes(e)
    /\ \A row \in Range(Indexes(d)) : \A column \in Range(ColumnNames(d)) :
          /\ GetItem(d, row, column).err = GetItem(e, row, column).err
          /\ GetItem(d, row, column).val = GetItem(e, row, column).val
    /\ \A column \in Range(ColumnNames(d)) :
          /\ FormulaOf(d, column).err = FormulaOf(e, column).err
          /\ FormulaOf(d, column).val = FormulaOf(e, column).val
    /\ <<d.title, d.course, d.code, d.date>> = <<e.title, e.course, e.code, e.date>>

\* the kind of a source column
SourceKind(d, column) ==
    IF d.source.dtype[column] = "float64" THEN "number" ELSE "string"

\* value does not suit the kind of the source column
Mismatch(d, column, value) ==
    \/ SourceKind(d, column) = "number" /\ ~IsNumber(value)
    \/ SourceKind(d, column) = "string" /\ ~IsString(value)

(***************************************************************************)
(* C4.  In every reachable state, when save(path) succeeds, from_file(path)*)
(* succeeds and gives a document with the same column_names, indexes,      *)
(* cells, formulas, title, course, code and date.                          *)
(* Fails: with a computed column named as a source column (C7), save       *)
(* writes the computed values as the rows of the source column.            *)
(***************************************************************************)
C4_SaveLoadRoundTrip ==
    \A path \in Paths :
        Save(doc, files, path).err = ""
            => /\ FromFile(Save(doc, files, path).files, path).err = ""
               /\ SameDocument(doc, FromFile(Save(doc, files, path).files, path).doc)

(***************************************************************************)
(* C5.  A cell write to an existing source column with a value that does   *)
(* not suit its kind (number: not numeric; string: not a string) raises    *)
(* TypeError and leaves the document as it was: cells, rows, columns and   *)
(* formulas.                                                               *)
(***************************************************************************)
C5_TypeMismatch ==
    [][ (/\ ret'.op = "setitem"
         /\ HasColumn(doc.source, ret'.args[2])
         /\ Mismatch(doc, ret'.args[2], ret'.args[3]))
            => (ret'.err = "TypeError" /\ doc' = doc) ]_vars

\* a refused write of a string to a number column, on a row the table lacks
C5_Witness ==
    /\ ret.op = "setitem"
    /\ ret.err = "TypeError"
    /\ HasColumn(doc.source, ret.args[2])
    /\ SourceKind(doc, ret.args[2]) = "number"
    /\ IsString(ret.args[3])
    /\ ~HasRow(doc.source, ret.args[1])
    /\ Len(doc.source.index) > 0

(***************************************************************************)
(* C6.  A cell write whose column is a key of the formula map raises       *)
(* IndexError (the read-only-column error) and leaves the document as it   *)
(* was.                                                                    *)
(* Fails: __setitem__ looks at the source columns first, and a name may be *)
(* both a source and a computed column (C7).                               *)
(***************************************************************************)
C6_ComputedReadOnly ==
    [][ (ret'.op = "setitem" /\ IsComputed(doc, ret'.args[2]))
            => (ret'.err = "IndexError" /\ doc' = doc) ]_vars

(***************************************************************************)
(* C7.  add_source_column on a name that is already a column raises        *)
(* ValueError (the invalid-name error) and leaves the document as it was,  *)
(* and column_names never holds a name twice.                              *)
(***************************************************************************)
C7_UniqueColumnNames ==
    [][ /\ (ret'.op = "add_source_column" /\ ret'.args[1] \in Range(ColumnNames(doc)))
            => (ret'.err = "ValueError" /\ doc' = doc)
        /\ NoDuplicate(ColumnNames(doc')) ]_vars

(***************************************************************************)
(* C8.  No add_source_column, add_row, cell write, add_computed_column or  *)
(* set_formula changes the kind of an existing source column.              *)
(***************************************************************************)
C8_KindFixed ==
    [][ ret'.op \in {"add_source_column", "add_row", "setitem",
                     "add_computed_column", "set_formula"}
            => \A c \in SourceKeys(doc) :
                  /\ c \in SourceKeys(doc')
                  /\ SourceKind(doc', c) = SourceKind(doc, c) ]_vars

(***************************************************************************)
(* C9.  add_row(index) raises IndexError (the duplicate-row error) and     *)
(* leaves the document as it was when index is a row; otherwise it         *)
(* succeeds, indexes is the old indexes plus index, every source column    *)
(* holds null at the new row and the cells of the old rows are unchanged.  *)
(***************************************************************************)
C9_AddRow ==
    [][ ret'.op = "add_row"
            => IF ret'.args[1] \in Range(Indexes(doc))
               THEN ret'.err = "IndexError" /\ doc' = doc
               ELSE /\ ret'.err = ""
                    /\ Indexes(doc') = Append(Indexes(doc), ret'.args[1])
                    /\ SourceKeys(doc') = SourceKeys(doc)
                    /\ \A c \in SourceKeys(doc) :
                          /\ doc'.source.data[c][ret'.args[1]] = Null
                          /\ \A r \in Range(Indexes(doc)) :
                                doc'.source.data[c][r] = doc.source.data[c][r] ]_vars

\* df holds formula f of column c applied to current columns
FreshColumn(d, df, c) ==
    LET f == DictGet(d.computed, c)
    IN \E pick \in [Range(f.refs) -> {"source", "computed"}] :
          /\ \A n \in Range(f.refs) :
                IF pick[n] = "source" THEN n \in SourceKeys(d) ELSE n \in ComputedKeys(d)
          /\ df.data[c] = ApplyFormula(f,
                [n \in Range(f.refs) |->
                    IF pick[n] = "source" THEN d.source.data[n] ELSE df.data[n]],
                d.source.index)

Fresh(d, df) ==
    /\ df.index = d.source.index
    /\ Range(df.columns) = SourceKeys(d) \cup ComputedKeys(d)
    /\ \A c \in SourceKeys(d) \ ComputedKeys(d) : df.data[c] = d.source.data[c]
    /\ \A c \in ComputedKeys(d) : FreshColumn(d, df, c)

(***************************************************************************)
(* C10.  When a read (column, index, cell get) returns, the table it read  *)
(* has the rows of the current source table and holds, for every computed  *)
(* column, its current formula applied to columns that are each the        *)
(* current source column or the table's computed column of that name; the  *)
(* value returned is taken from that table.                                *)
(***************************************************************************)
C10_NoStaleRead ==
    (ret.op \in {"column", "index", "getitem"} /\ ret.err = "")
        => /\ cs.status = "returned"
           /\ Fresh(doc, cs.df)
           /\ ret.val = CASE ret.op = "column" -> cs.df.data[ret.args[1]]
                          [] ret.op = "index" ->
                                [n \in Range(cs.df.columns) |-> cs.df.data[n][ret.args[1]]]
                          [] OTHER -> cs.df.data[ret.args[2]][ret.args[1]]

\* a computed cell read after two mutations: the write of a = 1 and the
\* formula b = a + 1
C10_Witness ==
    /\ ret.op = "getitem"
    /\ ret.args = <<"x", "b">>
    /\ ret.err = ""
    /\ ret.val = Num(2)
    /\ nops = 2
    /\ IsComputed(doc, "b")
    /\ doc.filename = None
    /\ doc.title = "Untitled"

(***************************************************************************)
(* C11.  No step of Document.compute changes the document: the source      *)
(* table, the formula map and the metadata are after the step what they    *)
(* were before it, whether the call goes on, returns or raises.            *)
(***************************************************************************)
C11_ComputeLeavesDocument ==
    [][ cs' # cs => doc' = doc ]_vars

\* the call raised after it had added a computed column to its working table
C11_Witness ==
    /\ cs.status \in {"NameError", "CyclicDependencyError"}
    /\ \E c \in ComputedKeys(doc) :
          HasColumn(cs.df, c) /\ ~HasColumn(doc.source, c)

(***************************************************************************)
(* C12.  The document has a dirty flag: false on a new or loaded document  *)
(* and after a successful save, true after a successful mutation (cell     *)
(* write, add_row, add_source_column, add_computed_column, set_formula),   *)
(* and left as it is by every other call.                                  *)
(* Fails: Document has no attribute dirty; ui.py reads it.                 *)
(***************************************************************************)
C12_DirtyFlag ==
    /\ DirtyOf(doc).err = "" /\ ~DirtyOf(doc).val
    /\ [][ /\ DirtyOf(doc').err = ""
           /\ IF ret'.err # "" \/ ret'.op \notin
                    {"setitem", "add_row", "add_source_column",
                     "add_computed_column", "set_formula", "save", "from_file"}
              THEN DirtyOf(doc').val = DirtyOf(doc).val
              ELSE DirtyOf(doc').val = (ret'.op \notin {"save", "from_file"}) ]_vars

(***************************************************************************)
(* C13.  set_formula(name, text) and formula(name) raise IndexError (the   *)
(* not-found error) when name is no key of the formula map, and the        *)
(* document is then as it was.  Otherwise set_formula keeps the computed   *)
(* names and their order, every other formula and the source table, and    *)
(* formula(name) is text afterwards; formula(name) returns the formula of  *)
(* name.                                                                   *)
(***************************************************************************)
C13_Formula ==
    [][ /\ ret'.op = "set_formula" =>
              IF ~IsComputed(doc, ret'.args[1])
              THEN ret'.err = "IndexError" /\ doc' = doc
              ELSE /\ ret'.err = ""
                   /\ DictKeys(doc'.computed) = DictKeys(doc.computed)
                   /\ \A c \in ComputedKeys(doc) \ {ret'.args[1]} :
                         DictGet(doc'.computed, c) = DictGet(doc.computed, c)
                   /\ doc'.source = doc.source
                   /\ FormulaOf(doc', ret'.args[1]).err = ""
                   /\ FormulaOf(doc', ret'.args[1]).val = ret'.args[2]
        /\ ret'.op = "formula" =>
              IF ~IsComputed(doc, ret'.args[1])
              THEN ret'.err = "IndexError" /\ doc' = doc
              ELSE /\ ret'.err = ""
                   /\ ret'.val = DictGet(doc.computed, ret'.args[1])
                   /\ doc' = doc ]_vars

\* a formula replaced in a map of two, the other formula being another text
C13_Witness ==
    /\ ret.op = "set_formula"
    /\ ret.err = ""
    /\ Len(doc.computed) = 2
    /\ DictGet(doc.computed, ret.args[1]) = ret.args[2]
    /\ \E c \in ComputedKeys(doc) : DictGet(doc.computed, c) # ret.args[2]

\* the path a save is to write: the argument, else the document's filename
Target(d, path) == IF path = None THEN d.filename ELSE path

\* the file at path holds the document d
Written(fs, path, d) ==
    /\ Len(fs[path]) = 1
    /\ fs[path][1].title = d.title
    /\ [i \in 1..Len(fs[path][1].columns) |-> fs[path][1].columns[i].name]
            = ColumnNames(d)
    /\ fs[path][1].datetime = IsoFormat(d.date)

C15_ThreeOutcomes ==
    <>(cs.status \in {"returned", "NameError", "CyclicDependencyError"})

(***************************************************************************)
(* C15 as amended.  Every call of compute ends, with the table returned,   *)
(* with NameError, with CyclicDependencyError or with the other exception  *)
(* the evaluation of a formula raised (TypeError), and stays ended.        *)
(***************************************************************************)
C15_Terminates ==
    <>[](cs.status \in {"returned", "NameError", "CyclicDependencyError", "TypeError"})

\* the cap ended a call that had sent formulas back to the queue
C15_Witness ==
    /\ cs.status = "CyclicDependencyError"
    /\ cs.count = cs.max_iter + 1
    /\ Len(cs.to_compute) >= 2

(***************************************************************************)
(* C16.  In one call of compute over n computed columns the attempt        *)
(* counter never passes n squared.                                         *)
(* Fails: the loop tests `count > max_iter` before it pops, so attempt     *)
(* n * n + 1 is still made.                                                *)
(***************************************************************************)
C16_AttemptBound ==
    cs.count <= Len(doc.computed) * Len(doc.computed)

\* n + (n - 1) + ... + 1
Triangle(n) == (n * (n + 1)) \div 2

(***************************************************************************)
(* C17 as claimed.  For an acyclic formula map whose identifiers are all   *)
(* column names, the attempt counter never passes n(n+1)/2 and the call    *)
(* runs until it returns the table.                                        *)
(***************************************************************************)
C17_AcyclicReturns ==
    (~HasCycle(doc) /\ AllRefsKnown(doc))
        => /\ cs.count <= Triangle(Len(doc.computed))
           /\ cs.status \in {"loop", "returned"}

(***************************************************************************)
(* C17 as amended.  For an acyclic formula map whose identifiers are all   *)
(* column names, the attempt counter never passes n(n+1)/2 and the call    *)
(* runs until it returns the table or a formula raises TypeError; it       *)
(* raises neither CyclicDependencyError nor NameError.                     *)
(***************************************************************************)
C17_AcyclicBound ==
    (~HasCycle(doc) /\ AllRefsKnown(doc))
        => /\ cs.count <= Triangle(Len(doc.computed))
           /\ cs.status \in {"loop", "returned", "TypeError"}

\* a chain of three declared in the reverse of its dependency order: the
\* table is returned at the sixth attempt
C17_Witness ==
    /\ cs.status = "returned"
    /\ Len(doc.computed) = 3
    /\ cs.count = Triangle(3)
    /\ ~HasCycle(doc)
    /\ AllRefsKnown(doc)
    /\ NoDuplicate(ColumnNames(doc))

\* how many times x is in the sequence q
Count(q, x) == Cardinality({i \in 1..Len(q) : q[i] = x})

\* each computed name is pending once or is a column of the working table,
\* never both
QueueOrTable(d, c) ==
    c.status \in {"loop", "returned"}
        => \A n \in ComputedKeys(d) :
              \/ Count(c.to_compute, n) = 1 /\ ~HasColumn(c.df, n)
              \/ Count(c.to_compute, n) = 0 /\ HasColumn(c.df, n)

(***************************************************************************)
(* C18.  While compute runs and when it returns, each computed name is in  *)
(* the queue exactly once or is a column of the working table, never both; *)
(* a formula that evaluates leaves the queue, one that fails on a computed *)
(* name not yet in the table goes to the end of the queue.                 *)
(* Fails: a computed column named as a source column (C7) is in the queue  *)
(* while the working table, a copy of the source table, has its column.    *)
(***************************************************************************)
C18_QueueInvariant ==
    /\ QueueOrTable(doc, cs)
    /\ [][ /\ QueueOrTable(doc', cs')
           /\ (Looping /\ Attempt.err = "")
                => /\ cs'.to_compute = Tail(cs.to_compute)
                   /\ HasColumn(cs'.df, Head(cs.to_compute))
           /\ (Looping /\ Attempt.err = "NameError" /\ IsComputed(doc, Attempt.name))
                => cs'.to_compute = Append(Tail(cs.to_compute), Head(cs.to_compute))
         ]_vars

\* the effect on the source table that C19 claims of a write of value at
\* (row, column), from the document d to the document e
CellWritten(d, e, row, column, value) ==
    IF ~HasRow(d.source, row)
    THEN /\ Indexes(e) = Append(Indexes(d), row)
         /\ SourceKeys(e) = SourceKeys(d)
         /\ \A c \in SourceKeys(d) \ {column} : e.source.data[c][row] = Null
         /\ \A c \in SourceKeys(d) : \A r \in Range(Indexes(d)) :
               e.source.data[c][r] = d.source.data[c][r]
    ELSE /\ Indexes(e) = Indexes(d)
         /\ SourceKeys(e) = SourceKeys(d)
         /\ \A c \in SourceKeys(d) : \A r \in Range(Indexes(d)) :
               <<r, c>> # <<row, column>> => e.source.data[c][r] = d.source.data[c][r]

(***************************************************************************)
(* C19.  After a successful cell write of value at (row, column), column a *)
(* source column: a cell get of (row, column) that returns, returns value; *)
(* a row that was missing is the new last row, null in every other source  *)
(* column; and every other cell is as it was.                              *)
(* Fails: when column is also a computed column (C7), the cell get returns *)
(* the computed value.                                                     *)
(***************************************************************************)
C19_CellWrite ==
    [][ (ret'.op = "setitem" /\ ret'.err = "" /\ HasColumn(doc.source, ret'.args[2]))
            => /\ GetItem(doc', ret'.args[1], ret'.args[2]).err = ""
                    => GetItem(doc', ret'.args[1], ret'.args[2]).val = ret'.args[3]
               /\ doc'.computed = doc.computed
               /\ CellWritten(doc, doc', ret'.args[1], ret'.args[2], ret'.args[3]) ]_vars

(***************************************************************************)
(* C20.  After add_source_column(name, rows) succeeds, name a new column   *)
(* name: every key of rows is a row of the document and the column holds   *)
(* rows[key] there, and every row the document had that is no key of rows  *)
(* is still a row and holds null in the column.                            *)
(* Fails: `self.__source[name] = serie` aligns the Series on the rows the  *)
(* table has and drops its other keys.                                     *)
(***************************************************************************)
C20_AddSourceColumn ==
    [][ (/\ ret'.op = "add_source_column"
         /\ ret'.err = ""
         /\ ret'.args[1] \notin Range(ColumnNames(doc)))
            => /\ \A key \in Range(DictKeys(ret'.args[2])) :
                     /\ HasRow(doc'.source, key)
                     /\ doc'.source.data[ret'.args[1]][key] = DictGet(ret'.args[2], key)
               /\ \A r \in Range(Indexes(doc)) \ Range(DictKeys(ret'.args[2])) :
                     /\ HasRow(doc'.source, r)
                     /\ doc'.source.data[ret'.args[1]][r] = Null ]_vars

(***************************************************************************)
(* C21: for every schema-valid input, from_dict creates each source column *)
(* with the kind its dtype tag declares: right after a load that succeeds, *)
(* column_type(name), when it returns, is the dtype of the entry of the    *)
(* file, also when the rows of the entry are empty or all null.            *)
(***************************************************************************)
C21_DeclaredKind ==
    (ret.op = "from_file" /\ ret.err = "") =>
        \A i \in 1..Len(files[ret.args[1]][1].columns) :
            LET e == files[ret.args[1]][1].columns[i]
            IN (e.type = "source" /\ ColumnType(doc, e.name).err = "")
                    => ColumnType(doc, e.name).val = e.dtype

(***************************************************************************)
(* C22 as claimed.  When the formula map makes the evaluation fail (cyclic *)
(* dependency or undefined reference), save raises that error and leaves   *)
(* the target file as it was.                                              *)
(***************************************************************************)
C22_SaveEvaluatesFirst ==
    [][ (/\ ret'.op = "save"
         /\ Target(doc, ret'.args[1]) # None
         /\ Compute(doc).status \in {"CyclicDependencyError", "NameError"})
            => /\ ret'.err = Compute(doc).status
               /\ files' = files ]_vars

(***************************************************************************)
(* C22 as amended.  save evaluates the document once per source column and *)
(* before it opens the target file: a save that raises leaves every file   *)
(* as it was; with a source column, a failing evaluation makes save raise  *)
(* the error of the evaluation; without source column save evaluates       *)
(* nothing and succeeds whatever the formulas are.                         *)
(***************************************************************************)
C22_SaveEvaluation ==
    [][ (ret'.op = "save" /\ Target(doc, ret'.args[1]) # None)
            => /\ ret'.err # "" => files' = files
               /\ (Len(doc.source.columns) > 0 /\ Compute(doc).status # "returned")
                    => ret'.err = Compute(doc).status
               /\ Len(doc.source.columns) = 0
                    => /\ ret'.err = ""
                       /\ Len(files'[Target(doc, ret'.args[1])]) = 1 ]_vars

\* a save of a loaded document with a source column and a formula over
\* itself raised CyclicDependencyError, and the file still holds the document
C22_Witness ==
    /\ ret.op = "save"
    /\ ret.err = "CyclicDependencyError"
    /\ Len(doc.source.columns) > 0
    /\ HasCycle(doc)
    /\ doc.filename \in Paths
    /\ FromFile(files, doc.filename).err = ""
    /\ FromFile(files, doc.filename).doc = doc

\* the same with an undefined reference: save raised NameError
C22_WitnessUndefined ==
    /\ ret.op = "save"
    /\ ret.err = "NameError"
    /\ Len(doc.source.columns) > 0
    /\ HasUnknownRef(doc)
    /\ FromFile(files, doc.filename).doc = doc

====
